---- MODULE Spec2Model ----
\* A model of socksync/groups.py: the synchronised groups of the socksync
\* server (SockSyncList, SockSyncVariable, SockSyncFunctionRemote,
\* SockSyncFunctionLocal) and the properties their specification states.
EXTENDS Integers, Sequences, FiniteSets, TLC

\* ------------------------------------------------------------------ bounds
MaxLen == 2          \* longest item sequence explored
MaxCount == 3        \* largest value the item counter is let to reach

\* ------------------------------------------------------------ value spaces
Sockets == {"s1", "s2"}          \* the connections
None == "None"                   \* Python's None (absent socket / value)
Ids == {"a", "b"}           \* item ids
Vals == {"v1", "v2"}             \* item values

VARIABLES
    values,              \* SockSyncList._values: sequence of [id, value]
    id_map,              \* SockSyncList._id_map: id -> index
    count,               \* SockSyncList._count
    current_page,        \* SockSyncList._current_page
    subscriber_sockets,  \* SockSyncGroup._subscriber_sockets (of the list)
    subscriber_pages,    \* SockSyncList._subscriber_pages: socket -> <<page, size>>
    lastOp               \* the last list operation and what it did (history)

listVars == <<values, id_map, count, current_page, subscriber_sockets,
              subscriber_pages, lastOp>>

VARIABLES
    var_value,     \* SockSyncVariable._value
    var_lock,      \* SockSyncVariable._lock: the thread holding it, or None
    var_subs,      \* SockSyncGroup._subscriber_sockets (of the variable)
    set_pc,        \* each thread's position in SockSyncVariable.set
    set_args,      \* each thread's new_value and ignore_socket
    set_json,      \* the value of the message each thread built
    set_left,      \* the subscribers each thread's _send_json has yet to visit
    set_raced,     \* whether another thread wrote between a thread's write and re-read (history)
    inbox,         \* the set messages each connection has received, in order
    var_cmd        \* the command each thread handled for the variable (history)

varVars == <<var_value, var_lock, var_subs, set_pc, set_args, set_json, set_left,
             set_raced, inbox, var_cmd>>

VARIABLES
    rf_subs,         \* SockSyncGroup._subscriber_sockets (of the remote function)
    returns,         \* SockSyncFunctionRemote._returns: call id -> value
    ignore_returns,  \* SockSyncFunctionRemote._ignore_returns
    next_uuid,       \* the next id uuid4() gives
    call_pc,         \* each thread's position in call_remote_blocking
    call_id,         \* its id_ (0 before one is drawn)
    call_socket,     \* its socket
    call_result,     \* its return_data
    call_seen,       \* the values of the return messages handled for its id while it waited (history)
    all_pc,          \* the position of call_remote_all
    all_id,          \* its id_
    all_left,        \* the subscribers its loop has yet to visit
    all_ids,         \* the ids call_remote_all has sent (history)
    rf_sent,         \* the call messages sent: socket, id, whether ignored when sent
    rf_last          \* the last command the remote function handled (history)

remVars == <<rf_subs, returns, ignore_returns, next_uuid, call_pc, call_id,
             call_socket, call_result, call_seen, all_pc, all_id, all_left,
             all_ids, rf_sent, rf_last>>

VARIABLES
    lf_subs,    \* SockSyncGroup._subscriber_sockets (of the local function)
    lf_tasks,   \* the threads _handle_func started: id_, socket and state
    lf_out,     \* the return messages sent: socket, id, value
    lf_last     \* the last command the local function handled (history)

locVars == <<lf_subs, lf_tasks, lf_out, lf_last>>

vars == <<listVars, varVars, remVars, locVars>>

\* ------------------------------------------------------- python containers
EmptyMap == [x \in {} |-> 0]

MapPut(m, k, v) == [x \in (DOMAIN m) \cup {k} |-> IF x = k THEN v ELSE m[x]]

MapDel(m, k) == [x \in (DOMAIN m) \ {k} |-> m[x]]

Has(data, f) == f \in DOMAIN data

DataGet(data, f, default) == IF Has(data, f) THEN data[f] ELSE default

Min(a, b) == IF a <= b THEN a ELSE b

Max(a, b) == IF a >= b THEN a ELSE b

\* list[i] with Python's negative indices: the 1-based position, or 0 when
\* the index is out of range (IndexError).
PyPos(vals, i) ==
    IF i >= 0 /\ i < Len(vals) THEN i + 1
    ELSE IF i < 0 /\ i >= 0 - Len(vals) THEN Len(vals) + i + 1
    ELSE 0

\* list.insert(index, item): the index is clamped into [0, len].
PyInsertAt(vals, index) ==
    IF index < 0 THEN Max(0, Len(vals) + index) ELSE Min(index, Len(vals))

PyInsert(vals, index, item) ==
    LET p == PyInsertAt(vals, index)
    IN  SubSeq(vals, 1, p) \o <<item>> \o SubSeq(vals, p + 1, Len(vals))

PyPop(vals, index) ==
    LET p == PyPos(vals, index)
    IN  SubSeq(vals, 1, p - 1) \o SubSeq(vals, p + 1, Len(vals))

Item(id, value) == [id |-> id, value |-> value]

ItemIds(vals) == {vals[k].id : k \in 1..Len(vals)}

\* The position (0-based) of the item carrying id, for a sequence of
\* distinct ids.
IndexOf(vals, id) == (CHOOSE k \in 1..Len(vals) : vals[k].id = id) - 1

\* for i in range(from, to): self._id_map[self._values[i].id] = i
\* [ok |-> FALSE] when an index of the range is outside the list.
RECURSIVE Reindex(_, _, _, _)
Reindex(map, vals, from, to) ==
    IF from >= to THEN [ok |-> TRUE, map |-> map]
    ELSE IF PyPos(vals, from) = 0 THEN [ok |-> FALSE, map |-> map]
    ELSE Reindex(MapPut(map, vals[PyPos(vals, from)].id, from), vals, from + 1, to)

\* ------------------------------------------------------------- messages
NoMsg == [func |-> "none", id |-> None, value |-> None, index |-> 0]

InsertMsg(id, value, index) ==
    [func |-> "insert", id |-> id, value |-> value, index |-> index]

SetMsg(id, value) == [func |-> "set", id |-> id, value |-> value, index |-> 0]

DeleteMsg(id) == [func |-> "delete", id |-> id, value |-> None, index |-> 0]

NoReply == [func |-> "none", id |-> None, value |-> None, page |-> 0,
            total_item_count |-> 0, items |-> <<>>]

SetReply(id, value) == [NoReply EXCEPT !.func = "set", !.id = id, !.value = value]

SetAllReply(page, total, items) ==
    [NoReply EXCEPT !.func = "set_all", !.page = page,
                    !.total_item_count = total, !.items = items]

\* What an operation did: the exception it ended with ("none" when it
\* returned), the sockets its message was sent to, the message, the reply
\* it returned, the socket a name error was sent to, and the values the
\* properties below need of it.
Op(name) ==
    [op |-> name, raised |-> "none", sent |-> {}, msg |-> NoMsg,
     reply |-> NoReply, name_error |-> None, socket |-> None,
     id |-> None, index |-> 0, value |-> None, was_subscribed |-> FALSE]

\* ----------------------------------------------------------- pagination
\* The size every list is constructed with (page_size of __init__).
page_size == 2

\* django Paginator.num_pages: ceil(max(1, count) / per_page), per_page > 0.
NumPages(n, per_page) == (Max(1, n) + per_page - 1) \div per_page

\* Paginator.get_page(number).object_list, number in 1..num_pages.
PageItems(vals, number, per_page) ==
    SubSeq(vals, (number - 1) * per_page + 1, Min(number * per_page, Len(vals)))

\* Covers with the upper end of the window taken inclusive.
CoversInclusive(window, index) ==
    window[1] * window[2] <= index /\ index <= window[1] * window[2] + window[2]

\* page * page_size <= index < page * page_size + page_size
Covers(window, index) ==
    window[1] * window[2] <= index /\ index < window[1] * window[2] + window[2]

\* _send_json_page: the sockets the message goes to, or KeyError when the
\* id is not in the id map.
SendJsonPage(map, subs, pages, id, ignore_socket) ==
    IF id \notin DOMAIN map THEN [raised |-> "KeyError", sent |-> {}]
    ELSE IF \E s \in subs : s \notin DOMAIN pages
         THEN [raised |-> "KeyError", sent |-> {}]
    ELSE [raised |-> "none",
          sent |-> {s \in subs : s # ignore_socket /\ Covers(pages[s], map[id])}]

\* ------------------------------------------------------------ the list
\* _handle_func("get", data, socket): the window stored, then the reply.
GetWindow(vals, data) ==
    LET size == Min(page_size, DataGet(data, "page_size", page_size))
        page == Max(0, Min(DataGet(data, "page", 0), NumPages(Len(vals), size) - 1))
    IN  <<page, size>>

ListGetReply(vals, map, cnt, data) ==
    LET w == GetWindow(vals, data)
    IN  IF ~Has(data, "id")
        THEN SetAllReply(w[1], cnt, PageItems(vals, w[1] + 1, w[2]))
        ELSE IF data["id"] \in DOMAIN map
        THEN IF PyPos(vals, map[data["id"]]) = 0 THEN NoReply
             ELSE SetReply(data["id"], vals[PyPos(vals, map[data["id"]])].value)
        ELSE NoReply

ListInit ==
    /\ values = <<>>
    /\ id_map = EmptyMap
    /\ count = 0
    /\ current_page = 0
    /\ subscriber_sockets = {}
    /\ subscriber_pages = EmptyMap
    /\ lastOp = Op("init")

\* SockSyncList._socket_subscribed
Subscribe(s) ==
    /\ subscriber_sockets' = subscriber_sockets \cup {s}
    /\ subscriber_pages' = MapPut(subscriber_pages, s, <<0, page_size>>)
    /\ lastOp' = [Op("subscribe") EXCEPT !.socket = s,
                      !.was_subscribed = (s \in subscriber_sockets)]
    /\ UNCHANGED <<values, id_map, count, current_page, varVars, remVars, locVars>>

\* set.remove(socket): KeyError when the socket is not a member.
SetRemove(subs, s) ==
    IF s \in subs THEN [raised |-> "none", set |-> subs \ {s}]
    ELSE [raised |-> "KeyError", set |-> subs]

\* SockSyncList._socket_unsubscribed
Unsubscribe(s) ==
    LET r == SetRemove(subscriber_sockets, s)
    IN  /\ subscriber_sockets' = r.set
        /\ subscriber_pages' = IF r.raised = "none" THEN MapDel(subscriber_pages, s)
                               ELSE subscriber_pages
        /\ lastOp' = [Op("unsubscribe") EXCEPT !.socket = s, !.raised = r.raised,
                          !.was_subscribed = (s \in subscriber_sockets)]
        /\ UNCHANGED <<values, id_map, count, current_page, varVars, remVars, locVars>>

\* The list's state after an operation, and what the operation did.
Outcome(vals, map, cnt, cur, pages, op) ==
    [values |-> vals, id_map |-> map, count |-> cnt, current_page |-> cur,
     subscriber_pages |-> pages, op |-> op]

Same(op) == Outcome(values, id_map, count, current_page, subscriber_pages, op)

Apply(r) ==
    /\ values' = r.values
    /\ id_map' = r.id_map
    /\ count' = r.count
    /\ current_page' = r.current_page
    /\ subscriber_pages' = r.subscriber_pages
    /\ lastOp' = r.op
    /\ UNCHANGED <<subscriber_sockets, varVars, remVars, locVars>>

\* SockSyncList.insert(index, value, id_, ignore_socket)
InsertResult(index, value, id, ignore_socket) ==
    LET vals1 == PyInsert(values, index, Item(id, value))
        re == Reindex(id_map, vals1, index, Len(vals1))
        snd == SendJsonPage(re.map, subscriber_sockets, subscriber_pages, id,
                            ignore_socket)
        op == [Op("insert") EXCEPT !.id = id, !.index = index, !.value = value,
                                   !.socket = ignore_socket]
    IN  IF ~re.ok
        THEN Outcome(vals1, re.map, count, current_page, subscriber_pages,
                     [op EXCEPT !.raised = "IndexError"])
        ELSE IF snd.raised # "none"
        THEN Outcome(vals1, re.map, count, current_page, subscriber_pages,
                     [op EXCEPT !.raised = snd.raised])
        ELSE Outcome(vals1, re.map, count + 1, current_page, subscriber_pages,
                     [op EXCEPT !.sent = snd.sent,
                                !.msg = InsertMsg(id, value, index)])

\* SockSyncList.set(id_, value, ignore_socket); the message is the reply of
\* _handle_func("get", dict(id=id_, ...)) with no socket, which also stores
\* a window under the key None.
SetResult(id, value, ignore_socket) ==
    LET op == [Op("set") EXCEPT !.id = id, !.value = value, !.socket = ignore_socket]
    IN  IF id \notin DOMAIN id_map THEN Same([op EXCEPT !.raised = "KeyError"])
        ELSE IF PyPos(values, id_map[id]) = 0
        THEN Same([op EXCEPT !.raised = "IndexError"])
        ELSE
        LET p == PyPos(values, id_map[id])
            vals1 == [values EXCEPT ![p].value = value]
            data == [x \in {"id"} |-> id]
            pages1 == MapPut(subscriber_pages, None, GetWindow(vals1, data))
            reply == ListGetReply(vals1, id_map, count, data)
            snd == SendJsonPage(id_map, subscriber_sockets, pages1, id, ignore_socket)
        IN  Outcome(vals1, id_map, count, current_page, pages1,
                    [op EXCEPT !.index = p - 1, !.raised = snd.raised,
                               !.sent = snd.sent,
                               !.msg = SetMsg(reply.id, reply.value)])

\* SockSyncList.delete(id_, ignore_socket)
DeleteResult(id, ignore_socket) ==
    LET op == [Op("delete") EXCEPT !.id = id, !.socket = ignore_socket]
    IN  IF id \notin DOMAIN id_map THEN Same([op EXCEPT !.raised = "KeyError"])
        ELSE IF PyPos(values, id_map[id]) = 0
        THEN Same([op EXCEPT !.raised = "IndexError"])
        ELSE
        LET index == id_map[id]
            vals1 == PyPop(values, index)
            map1 == MapDel(id_map, id)
            re == Reindex(map1, vals1, index, Len(vals1) - 1)
            snd == SendJsonPage(re.map, subscriber_sockets, subscriber_pages, id,
                                ignore_socket)
            op1 == [op EXCEPT !.index = index]
        IN  IF ~re.ok
            THEN Outcome(vals1, re.map, count, current_page, subscriber_pages,
                         [op1 EXCEPT !.raised = "IndexError"])
            ELSE IF snd.raised # "none"
            THEN Outcome(vals1, re.map, count, current_page, subscriber_pages,
                         [op1 EXCEPT !.raised = snd.raised])
            ELSE Outcome(vals1, re.map, count - 1, current_page, subscriber_pages,
                         [op1 EXCEPT !.sent = snd.sent, !.msg = DeleteMsg(id)])

\* Server-side calls. An id is unique within its list, so insert is called
\* with an id no item carries; the index is any Python accepts.
Insert(index, value, id, ignore_socket) ==
    /\ Len(values) < MaxLen
    /\ count < MaxCount
    /\ id \notin ItemIds(values)
    /\ Apply(InsertResult(index, value, id, ignore_socket))

\* SockSyncList.append(value, id_)
ListAppend(value, id) ==
    /\ Len(values) < MaxLen
    /\ count < MaxCount
    /\ id \notin ItemIds(values)
    /\ Apply([InsertResult(Len(values), value, id, None) EXCEPT !.op.op = "append"])

Set(id, value, ignore_socket) == Apply(SetResult(id, value, ignore_socket))

Delete(id, ignore_socket) == Apply(DeleteResult(id, ignore_socket))

\* SockSyncList.get(id_): self._values[self._id_map[id_]].value
GetValue(id) ==
    IF id \notin DOMAIN id_map THEN [raised |-> "KeyError", value |-> None]
    ELSE IF PyPos(values, id_map[id]) = 0 THEN [raised |-> "IndexError", value |-> None]
    ELSE [raised |-> "none", value |-> values[PyPos(values, id_map[id])].value]

Get(id) ==
    LET g == GetValue(id)
    IN  Apply(Same([Op("get") EXCEPT !.id = id, !.raised = g.raised,
                                     !.value = g.value]))

\* _handle_func("get", data, socket)
HandleGetResult(socket, data) ==
    LET op == [Op("handle_get") EXCEPT !.socket = socket,
                                       !.id = DataGet(data, "id", None)]
    IN  IF Min(page_size, DataGet(data, "page_size", page_size)) = 0
        THEN Same([op EXCEPT !.raised = "ZeroDivisionError"])
        ELSE
        LET pages1 == MapPut(subscriber_pages, socket, GetWindow(values, data))
            reply == ListGetReply(values, id_map, count, data)
            out(o) == Outcome(values, id_map, count, current_page, pages1, o)
        IN  IF ~Has(data, "id") THEN out([op EXCEPT !.reply = reply])
            ELSE IF data["id"] \in DOMAIN id_map
            THEN IF PyPos(values, id_map[data["id"]]) = 0
                 THEN out([op EXCEPT !.raised = "IndexError"])
                 ELSE out([op EXCEPT !.reply = reply])
            ELSE IF socket = None
            THEN out([op EXCEPT !.raised = "AttributeError"])
            ELSE out([op EXCEPT !.name_error = socket])

HandleGet(socket, data) == Apply(HandleGetResult(socket, data))

\* SockSyncList.__setitem__(key, value)
SetItemResult(key, value) ==
    LET op == [Op("setitem") EXCEPT !.index = key, !.value = value]
    IN  IF PyPos(values, key) = 0 THEN Same([op EXCEPT !.raised = "IndexError"])
        ELSE
        LET p == PyPos(values, key)
            id == values[p].id
            vals1 == [values EXCEPT ![p].value = value]
            data == [x \in {"id"} |-> id]
            pages1 == MapPut(subscriber_pages, None, GetWindow(vals1, data))
            reply == ListGetReply(vals1, id_map, count, data)
            snd == SendJsonPage(id_map, subscriber_sockets, pages1, id, None)
            out(o) == Outcome(vals1, id_map, count, current_page, pages1, o)
            op1 == [op EXCEPT !.id = id]
        IN  IF id \notin DOMAIN id_map
            THEN out([op1 EXCEPT !.raised = "AttributeError"])
            ELSE IF PyPos(vals1, id_map[id]) = 0
            THEN out([op1 EXCEPT !.raised = "IndexError"])
            ELSE out([op1 EXCEPT !.raised = snd.raised, !.sent = snd.sent,
                                 !.msg = SetMsg(reply.id, reply.value)])

SetItem(key, value) == Apply(SetItemResult(key, value))

\* [... for i in data["items"] if "id" in i and "value" in i]
RECURSIVE ItemsOf(_)
ItemsOf(entries) ==
    IF entries = <<>> THEN <<>>
    ELSE LET e == Head(entries)
         IN  (IF Has(e, "id") /\ Has(e, "value") THEN <<Item(e["id"], e["value"])>>
              ELSE <<>>) \o ItemsOf(Tail(entries))

\* SockSyncGroup._send_json(data, ignore_socket)
SendJson(subs, ignore_socket) == {s \in subs : s # ignore_socket}

\* _handle_func("set_all", data, socket), "items" in data
HandleSetAllResult(socket, data) ==
    LET op == [Op("handle_set_all") EXCEPT !.socket = socket]
        vals1 == ItemsOf(data["items"])
    IN  IF ~Has(data, "page")
        THEN Outcome(vals1, id_map, count, current_page, subscriber_pages,
                     [op EXCEPT !.raised = "KeyError"])
        ELSE IF ~Has(data, "total_item_count")
        THEN Outcome(vals1, id_map, count, data["page"], subscriber_pages,
                     [op EXCEPT !.raised = "KeyError"])
        ELSE Outcome(vals1, id_map, data["total_item_count"], data["page"],
                     subscriber_pages,
                     [op EXCEPT !.sent = SendJson(subscriber_sockets, socket),
                                !.msg = [NoMsg EXCEPT !.func = "set_all"]])

HandleSetAll(socket, data) ==
    /\ Has(data, "items")
    /\ Apply(HandleSetAllResult(socket, data))

\* "value" in "data": a substring test on the literal "data", never true.
ValueInLiteralData == FALSE

\* _handle_func("insert", data, socket)
HandleInsert(socket, data) ==
    /\ Len(values) < MaxLen
    /\ count < MaxCount
    /\ Has(data, "id") => data["id"] \notin ItemIds(values)
    /\ IF Has(data, "index") /\ ValueInLiteralData /\ Has(data, "id")
       THEN Apply([InsertResult(data["index"], data["value"], data["id"], socket)
                      EXCEPT !.op.op = "handle_insert"])
       ELSE Apply(Same([Op("handle_insert") EXCEPT !.socket = socket,
                            !.id = DataGet(data, "id", None)]))

\* _handle_func("set", data, socket)
HandleSet(socket, data) ==
    IF Has(data, "value") /\ Has(data, "id")
    THEN Apply([SetResult(data["id"], data["value"], socket)
                   EXCEPT !.op.op = "handle_set"])
    ELSE Apply(Same([Op("handle_set") EXCEPT !.socket = socket,
                         !.id = DataGet(data, "id", None)]))

\* _handle_func("delete", data, socket)
HandleDelete(socket, data) ==
    IF Has(data, "id")
    THEN Apply([DeleteResult(data["id"], socket) EXCEPT !.op.op = "handle_delete"])
    ELSE Apply(Same([Op("handle_delete") EXCEPT !.socket = socket]))

\* ------------------------------------------------------------- the inputs
Field(f, S) == {[x \in {} |-> 0]} \cup {[x \in {f} |-> v] : v \in S}

Opt(f, S) == {[x \in {f} |-> v] : v \in S}

\* sockets as an origin or an ignored socket: a connection or None
Origins == Sockets \cup {None}

Indices == (0 - 1)..(MaxLen + 1)

\* get payloads: an optional page, page_size and id
GetData ==
    {a @@ b @@ c : a \in Field("page", {0 - 1, 1}),
                   b \in Field("page_size", {0, 1, page_size + 1}),
                   c \in Field("id", {"a"})}

\* set_all payloads: items with distinct ids (one entry may lack its value),
\* a page and a total that need not be the number of items sent; and the
\* payloads that lack the page or the total
Entries == {Item(i, "v1") : i \in Ids} \cup {[x \in {"id"} |-> "a"]}

DistinctIds(entries) ==
    \A j, k \in 1..Len(entries) : j # k => entries[j]["id"] # entries[k]["id"]

EntrySeqs ==
    {s \in UNION {[1..n -> Entries] : n \in 0..MaxLen} : DistinctIds(s)}

SetAllData ==
    {a @@ b @@ c : a \in Opt("items", EntrySeqs), b \in Opt("page", {0}),
                   c \in Opt("total_item_count", 0..MaxLen)}
    \cup {a @@ b : a \in Opt("items", {<<>>}), b \in Field("page", {0})}

\* The windowed broadcast: subscriptions, the get commands of subscribers
\* and the deltas of server-side insert and set.
WindowNext ==
    \/ \E s \in Sockets : Subscribe(s)
    \/ \E s \in subscriber_sockets, d \in GetData : HandleGet(s, d)
    \/ \E i \in Indices, v \in Vals, id \in Ids, ig \in {None, "s1"} :
          Insert(i, v, id, ig)
    \/ \E id \in Ids, v \in Vals, ig \in {None, "s1"} : Set(id, v, ig)

\* The subscriber set and the window map: subscriptions, get commands from
\* any origin, and the server-side operations that read the windows.
SubsNext ==
    \/ \E s \in Sockets : Subscribe(s)
    \/ \E s \in Sockets : Unsubscribe(s)
    \/ \E s \in Origins, d \in GetData : HandleGet(s, d)
    \/ \E id \in Ids : ListAppend("v1", id)
    \/ \E id \in Ids : Set(id, "v2", None)
    \/ \E k \in Indices : SetItem(k, "v2")

\* The items: the operations that change or read them.
ItemsNext ==
    \/ \E i \in Indices, v \in Vals, id \in Ids : Insert(i, v, id, None)
    \/ \E v \in Vals, id \in Ids : ListAppend(v, id)
    \/ \E id \in Ids : Delete(id, None)
    \/ \E id \in Ids : Get(id)
    \/ \E s \in Origins, d \in Opt("id", Ids) : HandleGet(s, d)
    \/ \E s \in Origins, d \in SetAllData : HandleSetAll(s, d)


\* The payloads of the commands a peer sends: a get that pages or looks up
\* one item; insert, set and delete with their fields present or missing.
CmdGetData ==
    {[x \in {"page"} |-> 1], [x \in {"page_size"} |-> 1]} \cup Opt("id", Ids)

InsertData ==
    {a @@ b @@ c : a \in Field("index", {0, 1}), b \in Field("value", {"v2"}),
                   c \in Field("id", Ids)}

SetData == {a @@ b : a \in Field("value", {"v2"}), b \in Field("id", Ids)}

DeleteData == Field("id", Ids)

\* The command handler: subscriptions, a server that appends items, the
\* get, insert, set and delete commands of connections (and of the server,
\* with no socket), and the server-side delete.
CmdNext ==
    \/ \E s \in Sockets : Subscribe(s)
    \/ \E id \in Ids : ListAppend("v1", id)
    \/ \E s \in Sockets, d \in CmdGetData : HandleGet(s, d)
    \/ \E s \in Origins, d \in InsertData : HandleInsert(s, d)
    \/ \E s \in Origins, d \in SetData : HandleSet(s, d)
    \/ \E s \in Origins, d \in DeleteData : HandleDelete(s, d)
    \/ \E id \in Ids, ig \in {None, "s1"} : Delete(id, ig)


\* ---------------------------------------------------------- the variable
Threads == {"t1", "t2"}

\* A command a thread handled: its func, the socket it came from, the value
\* it carried, the exception it ended with, the reply it returned, and
\* whether it went on to call set.
VarCmd(name) ==
    [op |-> name, socket |-> None, value |-> None, raised |-> "none",
     reply |-> None, took |-> FALSE]

VarInit ==
    /\ var_value = None
    /\ var_lock = None
    /\ var_subs = {}
    /\ set_pc = [t \in Threads |-> "idle"]
    /\ set_args = [t \in Threads |-> [new_value |-> None, ignore_socket |-> None]]
    /\ set_json = [t \in Threads |-> None]
    /\ set_left = [t \in Threads |-> {}]
    /\ set_raced = [t \in Threads |-> FALSE]
    /\ inbox = [s \in Sockets |-> <<>>]
    /\ var_cmd = [t \in Threads |-> VarCmd("none")]

\* SockSyncGroup._socket_subscribed, while no set is under way.
VarSubscribe(s) ==
    /\ \A t \in Threads : set_pc[t] = "idle"
    /\ s \notin var_subs
    /\ var_subs' = var_subs \cup {s}
    /\ UNCHANGED <<var_value, var_lock, set_pc, set_args, set_json, set_left,
                   set_raced, inbox, var_cmd, listVars, remVars, locVars>>

\* SockSyncVariable.set(new_value, ignore_socket): the call, up to taking
\* the lock.
VarSetLock(t, x, ig) ==
    /\ set_pc[t] = "idle"
    /\ var_lock = None
    /\ var_lock' = t
    /\ set_pc' = [set_pc EXCEPT ![t] = "write"]
    /\ set_args' = [set_args EXCEPT ![t] = [new_value |-> x, ignore_socket |-> ig]]
    /\ UNCHANGED <<var_value, var_subs, set_json, set_left, set_raced, inbox,
                   var_cmd, listVars, remVars, locVars>>

\* self._value = new_value, and the lock released.
VarSetWrite(t) ==
    /\ set_pc[t] = "write"
    /\ var_value' = set_args[t].new_value
    /\ var_lock' = None
    /\ set_pc' = [set_pc EXCEPT ![t] = "get"]
    /\ set_raced' = [u \in Threads |->
                        IF u = t THEN FALSE
                        ELSE set_raced[u] \/ set_pc[u] \in {"get", "read"}]
    /\ UNCHANGED <<var_subs, set_args, set_json, set_left, inbox, var_cmd, listVars, remVars, locVars>>

\* self._handle_func("get") -> self.get(): the lock taken again.
VarGetLock(t) ==
    /\ set_pc[t] = "get"
    /\ var_lock = None
    /\ var_lock' = t
    /\ set_pc' = [set_pc EXCEPT ![t] = "read"]
    /\ UNCHANGED <<var_value, var_subs, set_args, set_json, set_left, set_raced,
                   inbox, var_cmd, listVars, remVars, locVars>>

\* _send_json without its test: the ignored socket is sent to as well.
SendsToAll(s, ignore_socket) == TRUE

\* _send_json's test: socket != ignore_socket
SendsTo(s, ignore_socket) == s # ignore_socket

\* The value of the message _handle_func("get") builds: dict(func="set",
\* value=self.get(), ...).
GetJson(value) == value

\* return self._value under the lock; the message is built and _send_json
\* starts to iterate the subscribers.
VarGetRead(t) ==
    /\ set_pc[t] = "read"
    /\ set_json' = [set_json EXCEPT ![t] = GetJson(var_value)]
    /\ var_lock' = None
    /\ set_left' = [set_left EXCEPT ![t] = var_subs]
    /\ set_pc' = [set_pc EXCEPT ![t] = "send"]
    /\ UNCHANGED <<var_value, var_subs, set_args, set_raced, inbox, var_cmd, listVars, remVars, locVars>>

\* One turn of the loop of _send_json: the next subscriber, in the set's
\* iteration order, is sent the message unless it is the ignored socket.
VarSend(t, s) ==
    /\ set_pc[t] = "send"
    /\ s \in set_left[t]
    /\ set_left' = [set_left EXCEPT ![t] = @ \ {s}]
    /\ inbox' = IF SendsTo(s, set_args[t].ignore_socket)
                THEN [inbox EXCEPT ![s] = Append(@, [from |-> t, value |-> set_json[t]])]
                ELSE inbox
    /\ UNCHANGED <<var_value, var_lock, var_subs, set_pc, set_args, set_json,
                   set_raced, var_cmd, listVars, remVars, locVars>>

\* The loop is over and set returns.
VarSetReturn(t) ==
    /\ set_pc[t] = "send"
    /\ set_left[t] = {}
    /\ set_pc' = [set_pc EXCEPT ![t] = "done"]
    /\ UNCHANGED <<var_value, var_lock, var_subs, set_args, set_json, set_left,
                   set_raced, inbox, var_cmd, listVars, remVars, locVars>>

VarNext ==
    \/ \E s \in Sockets : VarSubscribe(s)
    \/ \E t \in Threads, x \in Vals, ig \in Origins : VarSetLock(t, x, ig)
    \/ \E t \in Threads : VarSetWrite(t)
    \/ \E t \in Threads : VarGetLock(t)
    \/ \E t \in Threads : VarGetRead(t)
    \/ \E t \in Threads, s \in Sockets : VarSend(t, s)
    \/ \E t \in Threads : VarSetReturn(t)

\* socket.subscribed(self) answering yes for every socket.
SubscribedAlways(s, subs) == TRUE

\* socket.subscribed(self)
Subscribed(s, subs) == s \in subs

\* _handle_func("set", data, socket) in thread t: with a value in the
\* payload and a subscribed socket, self.set(data["value"], socket) is
\* called (shown up to its taking the lock); otherwise the handler returns
\* None, or raises AttributeError when there is no socket to ask.
VarHandleSet(t, s, data) ==
    LET cmd == [VarCmd("set") EXCEPT !.socket = s,
                                     !.value = DataGet(data, "value", None)]
    IN  /\ set_pc[t] = "idle"
        /\ IF ~Has(data, "value")
           THEN /\ var_cmd' = [var_cmd EXCEPT ![t] = cmd]
                /\ set_pc' = [set_pc EXCEPT ![t] = "handled"]
                /\ UNCHANGED <<var_lock, set_args>>
           ELSE IF s = None
           THEN /\ var_cmd' = [var_cmd EXCEPT ![t] = [cmd EXCEPT !.raised = "AttributeError"]]
                /\ set_pc' = [set_pc EXCEPT ![t] = "handled"]
                /\ UNCHANGED <<var_lock, set_args>>
           ELSE IF Subscribed(s, var_subs)
           THEN /\ var_lock = None
                /\ var_lock' = t
                /\ var_cmd' = [var_cmd EXCEPT ![t] = [cmd EXCEPT !.took = TRUE]]
                /\ set_pc' = [set_pc EXCEPT ![t] = "write"]
                /\ set_args' = [set_args EXCEPT
                                   ![t] = [new_value |-> data["value"],
                                           ignore_socket |-> s]]
                       ELSE /\ var_cmd' = [var_cmd EXCEPT ![t] = cmd]
                /\ set_pc' = [set_pc EXCEPT ![t] = "handled"]
                /\ UNCHANGED <<var_lock, set_args>>
        /\ UNCHANGED <<var_value, var_subs, set_json, set_left, set_raced, inbox,
                       listVars, remVars, locVars>>

\* _handle_func("get", data, socket) in thread t: with no socket or a
\* subscribed one the reply carries self.get(), read under the lock;
\* otherwise the handler returns None.
VarHandleGet(t, s) ==
    LET cmd == [VarCmd("get") EXCEPT !.socket = s]
        reads == s = None \/ Subscribed(s, var_subs)
    IN  /\ set_pc[t] = "idle"
        /\ reads => var_lock = None
        /\ var_cmd' = [var_cmd EXCEPT
                          ![t] = IF reads THEN [cmd EXCEPT !.reply = GetJson(var_value)]
                                 ELSE cmd]
        /\ set_pc' = [set_pc EXCEPT ![t] = "handled"]
        /\ UNCHANGED <<var_value, var_lock, var_subs, set_args, set_json, set_left,
                       set_raced, inbox, listVars, remVars, locVars>>

\* set payloads: with or without the value
VarSetData == Field("value", Vals)

\* The variable's command handler: the subscriptions, the set and get
\* commands of connections and of the server, each in a thread of its own,
\* and the steps of the sets they start.
VarCmdNext ==
    \/ \E s \in Sockets : VarSubscribe(s)
    \/ \E t \in Threads, s \in Origins, d \in VarSetData : VarHandleSet(t, s, d)
    \/ \E t \in Threads, s \in Origins : VarHandleGet(t, s)
    \/ \E t \in Threads : VarSetWrite(t)
    \/ \E t \in Threads : VarGetLock(t)
    \/ \E t \in Threads : VarGetRead(t)
    \/ \E t \in Threads, s \in Sockets : VarSend(t, s)
    \/ \E t \in Threads : VarSetReturn(t)

\* ------------------------------------------------- the remote function
MaxUuids == 3        \* the number of ids uuid4() is asked for

RfOp(name) ==
    [op |-> name, raised |-> "none", general_error |-> None, reply |-> None]

RemInit ==
    /\ rf_subs = {}
    /\ returns = EmptyMap
    /\ ignore_returns = {}
    /\ next_uuid = 1
    /\ call_pc = [t \in Threads |-> "idle"]
    /\ call_id = [t \in Threads |-> 0]
    /\ call_socket = [t \in Threads |-> None]
    /\ call_result = [t \in Threads |-> None]
    /\ call_seen = [t \in Threads |-> {}]
    /\ all_pc = "idle"
    /\ all_id = 0
    /\ all_left = {}
    /\ all_ids = {}
    /\ rf_sent = {}
    /\ rf_last = RfOp("init")

\* SockSyncGroup._socket_subscribed, while call_remote_all is not iterating.
RfSubscribe(s) ==
    /\ all_pc # "loop"
    /\ s \notin rf_subs
    /\ rf_subs' = rf_subs \cup {s}
    /\ rf_last' = RfOp("step")
    /\ UNCHANGED <<returns, ignore_returns, next_uuid, call_pc, call_id, call_socket,
                   call_result, call_seen, all_pc, all_id, all_left, all_ids,
                   rf_sent, listVars, varVars, locVars>>

\* call_remote_blocking(socket), to the start of its wait: None at once for
\* a socket that is not subscribed, else a call message under a new id.
BlockingCall(t, s) ==
    /\ call_pc[t] = "idle"
    /\ call_socket' = [call_socket EXCEPT ![t] = s]
    /\ IF s \notin rf_subs
       THEN /\ call_pc' = [call_pc EXCEPT ![t] = "returned"]
            /\ rf_last' = RfOp("step")
            /\ UNCHANGED <<next_uuid, call_id, rf_sent>>
       ELSE /\ next_uuid <= MaxUuids
            /\ next_uuid' = next_uuid + 1
            /\ call_id' = [call_id EXCEPT ![t] = next_uuid]
            /\ rf_sent' = rf_sent \cup
                  {[socket |-> s, id |-> next_uuid, ignored |-> FALSE, by |-> t]}
            /\ call_pc' = [call_pc EXCEPT ![t] = "wait"]
            /\ rf_last' = RfOp("step")
    /\ UNCHANGED <<rf_subs, returns, ignore_returns, call_result, call_seen, all_pc,
                   all_id, all_left, all_ids, listVars, varVars, locVars>>

\* while id_ not in self._returns: the test that ends the wait.
BlockingPoll(t) ==
    /\ call_pc[t] = "wait"
    /\ call_id[t] \in DOMAIN returns
    /\ call_pc' = [call_pc EXCEPT ![t] = "found"]
    /\ rf_last' = RfOp("step")
    /\ UNCHANGED <<rf_subs, returns, ignore_returns, next_uuid, call_id, call_socket,
                   call_result, call_seen, all_pc, all_id, all_left, all_ids,
                   rf_sent, listVars, varVars, locVars>>

\* An entry of the map other than the caller's own, when there is one.
ReturnDataOfAny(rets, id) ==
    IF \E k \in DOMAIN rets : k # id
    THEN rets[CHOOSE k \in DOMAIN rets : k # id] ELSE rets[id]

\* return_data = self._returns[id_]
ReturnData(rets, id) == rets[id]

BlockingRead(t) ==
    /\ call_pc[t] = "found"
    /\ call_result' = [call_result EXCEPT ![t] = ReturnData(returns, call_id[t])]
    /\ call_pc' = [call_pc EXCEPT ![t] = "read"]
    /\ rf_last' = RfOp("step")
    /\ UNCHANGED <<rf_subs, returns, ignore_returns, next_uuid, call_id, call_socket,
                   call_seen, all_pc, all_id, all_left, all_ids, rf_sent,
                   listVars, varVars, locVars>>

\* self._returns.pop(id_); return return_data
BlockingReturn(t) ==
    /\ call_pc[t] = "read"
    /\ returns' = MapDel(returns, call_id[t])
    /\ call_pc' = [call_pc EXCEPT ![t] = "returned"]
    /\ rf_last' = RfOp("step")
    /\ UNCHANGED <<rf_subs, ignore_returns, next_uuid, call_id, call_socket,
                   call_result, call_seen, all_pc, all_id, all_left, all_ids,
                   rf_sent, listVars, varVars, locVars>>

\* call_remote_all, to the start of its loop: the first id is drawn.
AllCall ==
    /\ all_pc = "idle"
    /\ next_uuid <= MaxUuids
    /\ next_uuid' = next_uuid + 1
    /\ all_id' = next_uuid
    /\ all_left' = rf_subs
    /\ all_pc' = "loop"
    /\ rf_last' = RfOp("step")
    /\ UNCHANGED <<rf_subs, returns, ignore_returns, call_pc, call_id, call_socket,
                   call_result, call_seen, all_ids, rf_sent, listVars, varVars, locVars>>

\* One turn of the loop: the id is added to the ignored set, the message
\* sent, and the next id drawn.
AllSend(s) ==
    /\ all_pc = "loop"
    /\ s \in all_left
    /\ next_uuid <= MaxUuids
    /\ ignore_returns' = ignore_returns \cup {all_id}
    /\ rf_sent' = rf_sent \cup
          {[socket |-> s, id |-> all_id, ignored |-> all_id \in ignore_returns',
            by |-> "all"]}
    /\ all_ids' = all_ids \cup {all_id}
    /\ next_uuid' = next_uuid + 1
    /\ all_id' = next_uuid
    /\ all_left' = all_left \ {s}
    /\ rf_last' = RfOp("step")
    /\ UNCHANGED <<rf_subs, returns, call_pc, call_id, call_socket, call_result,
                   call_seen, all_pc, listVars, varVars, locVars>>

AllReturn ==
    /\ all_pc = "loop"
    /\ all_left = {}
    /\ all_pc' = "done"
    /\ rf_last' = RfOp("step")
    /\ UNCHANGED <<rf_subs, returns, ignore_returns, next_uuid, call_pc, call_id,
                   call_socket, call_result, call_seen, all_id, all_left, all_ids,
                   rf_sent, listVars, varVars, locVars>>

\* The return branch with the value stored whether or not the id is ignored.
StoreReturnAlways(rets, ign, id, value) ==
    [returns |-> MapPut(rets, id, value), ignore |-> ign \ {id}]

\* The return branch with the ignored id kept and the value stored.
StoreReturnKeep(rets, ign, id, value) ==
    [returns |-> MapPut(rets, id, value), ignore |-> ign]

\* if id_ in self._ignore_returns: remove it; else self._returns[id_] = value
StoreReturn(rets, ign, id, value) ==
    IF id \in ign THEN [returns |-> rets, ignore |-> ign \ {id}]
    ELSE [returns |-> MapPut(rets, id, value), ignore |-> ign]

\* SockSyncFunctionRemote._handle_func(func, data, socket)
RfHandle(func, s, data) ==
    /\ IF ~Has(data, "id")
       THEN /\ rf_last' = [RfOp(func) EXCEPT
                              !.general_error = s,
                              !.raised = IF s = None THEN "KeyError" ELSE "none"]
            /\ UNCHANGED <<returns, ignore_returns, call_seen>>
       ELSE IF func = "call"
       THEN /\ rf_last' = [RfOp(func) EXCEPT !.reply = "Function is not callable!"]
            /\ UNCHANGED <<returns, ignore_returns, call_seen>>
       ELSE LET id == data["id"]
                value == DataGet(data, "value", None)
                r == StoreReturn(returns, ignore_returns, id, value)
            IN  /\ returns' = r.returns
                /\ ignore_returns' = r.ignore
                /\ call_seen' =
                      [t \in Threads |->
                          IF call_id[t] = id /\ call_pc[t] \in {"wait", "found"}
                          THEN call_seen[t] \cup {value}
                          ELSE call_seen[t]]
                /\ rf_last' = RfOp(func)
    /\ UNCHANGED <<rf_subs, next_uuid, call_pc, call_id, call_socket, call_result,
                   all_pc, all_id, all_left, all_ids, rf_sent, listVars, varVars, locVars>>

\* The ids a peer can name: those of the call messages sent (uuid4() never
\* gives an id a peer made up).
PeerIds == {m.id : m \in rf_sent}

RfData == {a @@ b : a \in Opt("id", PeerIds), b \in Opt("value", Vals)}

RemNext ==
    \/ \E s \in Sockets : RfSubscribe(s)
    \/ BlockingCall("t1", "s1") \/ BlockingCall("t2", "s2")
    \/ \E t \in Threads : BlockingPoll(t)
    \/ \E t \in Threads : BlockingRead(t)
    \/ \E t \in Threads : BlockingReturn(t)
    \/ AllCall
    \/ \E s \in Sockets : AllSend(s)
    \/ AllReturn
    \/ \E d \in RfData : RfHandle("return", "s1", d)

\* -------------------------------------------------- the local function
MaxTasks == 2        \* the number of threads _handle_func is let to start

CallIds == {"c1", "c2"}          \* the ids a peer gives its calls

LfOp(name) == [op |-> name, raised |-> "none", general_error |-> None]

LocInit ==
    /\ lf_subs = {}
    /\ lf_tasks = <<>>
    /\ lf_out = {}
    /\ lf_last = LfOp("init")

\* SockSyncGroup._socket_subscribed
LfSubscribe(s) ==
    /\ s \notin lf_subs
    /\ lf_subs' = lf_subs \cup {s}
    /\ lf_last' = LfOp("subscribe")
    /\ UNCHANGED <<lf_tasks, lf_out, listVars, varVars, remVars>>

\* SockSyncFunctionLocal._handle_func(func, data, socket)
LfHandle(func, s, data) ==
    /\ Len(lf_tasks) < MaxTasks
    /\ IF ~Has(data, "id")
       THEN /\ lf_last' = [LfOp(func) EXCEPT
                              !.general_error = s,
                              !.raised = IF s = None THEN "KeyError" ELSE "none"]
            /\ UNCHANGED lf_tasks
       ELSE IF func # "call"
       THEN /\ lf_last' = LfOp(func)
            /\ UNCHANGED lf_tasks
       ELSE IF s = None
       THEN /\ lf_last' = [LfOp(func) EXCEPT !.raised = "AttributeError"]
            /\ UNCHANGED lf_tasks
       ELSE IF s \in lf_subs
       THEN /\ lf_tasks' = Append(lf_tasks, [id |-> data["id"], socket |-> s,
                                             state |-> "running"])
            /\ lf_last' = LfOp(func)
       ELSE /\ lf_last' = LfOp(func)
            /\ UNCHANGED lf_tasks
    /\ UNCHANGED <<lf_subs, lf_out, listVars, varVars, remVars>>

\* _function_call_wrapper sending its return message to every subscriber.
LfReturnToAll(k, value) ==
    /\ k \in 1..Len(lf_tasks)
    /\ lf_tasks[k].state = "running"
    /\ lf_tasks' = [lf_tasks EXCEPT ![k].state = "returned"]
    /\ lf_out' = lf_out \cup {[socket |-> c, id |-> lf_tasks[k].id,
                               value |-> value, error |-> FALSE] : c \in lf_subs}
    /\ lf_last' = LfOp("thread")
    /\ UNCHANGED <<lf_subs, listVars, varVars, remVars>>

\* _function_call_wrapper when self.function returns value: the return
\* message is sent to the calling socket.
LfReturn(k, value) ==
    /\ k \in 1..Len(lf_tasks)
    /\ lf_tasks[k].state = "running"
    /\ lf_tasks' = [lf_tasks EXCEPT ![k].state = "returned"]
    /\ lf_out' = lf_out \cup {[socket |-> lf_tasks[k].socket, id |-> lf_tasks[k].id,
                               value |-> value, error |-> FALSE]}
    /\ lf_last' = LfOp("thread")
    /\ UNCHANGED <<lf_subs, listVars, varVars, remVars>>

\* _function_call_wrapper when self.function raises: the exception leaves
\* the wrapper before send_json is reached and ends the thread.
LfRaise(k) ==
    /\ k \in 1..Len(lf_tasks)
    /\ lf_tasks[k].state = "running"
    /\ lf_tasks' = [lf_tasks EXCEPT ![k].state = "raised"]
    /\ lf_last' = LfOp("thread")
    /\ UNCHANGED <<lf_subs, lf_out, listVars, varVars, remVars>>

LfData == {a @@ b : a \in Field("id", CallIds), b \in Field("args", {"x"})}

LocNext ==
    \/ \E s \in Sockets : LfSubscribe(s)
    \/ \E f \in {"call", "return"}, s \in Origins, d \in LfData : LfHandle(f, s, d)
    \/ \E k \in 1..MaxTasks, v \in Vals : LfReturn(k, v)
    \/ \E k \in 1..MaxTasks : LfRaise(k)

\* --------------------------------------------------------- specifications
Init == ListInit /\ VarInit /\ RemInit /\ LocInit

SpecWindow == Init /\ [][WindowNext]_vars

SpecSubs == Init /\ [][SubsNext]_vars

SpecItems == Init /\ [][ItemsNext]_vars

SpecCmd == Init /\ [][CmdNext]_vars

SpecVar == Init /\ [][VarNext]_vars

SpecVarCmd == Init /\ [][VarCmdNext]_vars

SpecRemote == Init /\ [][RemNext]_vars

SpecLocal == Init /\ [][LocNext]_vars

Next ==
    \/ WindowNext \/ SubsNext \/ ItemsNext \/ CmdNext
    \/ VarNext \/ VarCmdNext \/ RemNext \/ LocNext

Spec == Init /\ [][Next]_vars

\* ------------------------------------------------------------ properties
\* The position a finished insert or set acted on: where the inserted item
\* now stands, or the position whose value set wrote.
AffectedPosition ==
    IF lastOp.op = "insert" THEN IndexOf(values, lastOp.id) ELSE lastOp.index

IdIndexInvariant ==
    \A k \in 1..Len(values) :
        /\ values[k].id \in DOMAIN id_map
        /\ id_map[values[k].id] = k - 1

\* C3: the item counter equals the number of items held.
CountInvariant == count = Len(values)

\* C4: get(X) right after an insert(idx, v, X) that returned returns v; a delete(X) after
\* that returns normally; get(X) right after delete(X) fails with KeyError,
\* and as a get command from a connection sends it a name error.
RoundTrip ==
    [][/\ (lastOp.op \in {"insert", "append"} /\ lastOp.raised = "none"
              /\ lastOp'.op = "get" /\ lastOp'.id = lastOp.id)
          => (lastOp'.raised = "none" /\ lastOp'.value = lastOp.value)
       /\ (lastOp.op = "get" /\ lastOp.raised = "none" /\ lastOp'.op = "delete"
              /\ lastOp'.id = lastOp.id)
          => lastOp'.raised = "none"
       /\ (lastOp.op = "delete" /\ lastOp'.op = "get" /\ lastOp'.id = lastOp.id)
          => lastOp'.raised = "KeyError"
       /\ (lastOp.op = "delete" /\ lastOp'.op = "handle_get"
              /\ lastOp'.id = lastOp.id /\ lastOp'.socket # None)
          => lastOp'.name_error = lastOp'.socket
      ]_vars

\* C6: unsubscribing a socket that is not subscribed raises nothing.
UnsubscribeAbsentSilent ==
    (lastOp.op = "unsubscribe" /\ ~lastOp.was_subscribed) => lastOp.raised = "none"

\* C5 as stated: once set(x) has returned, every subscriber other than the
\* ignored socket has received a set message carrying x.
SetDeliversOwnValue ==
    \A t \in Threads, c \in var_subs :
        (set_pc[t] = "done" /\ c # set_args[t].ignore_socket) =>
            \E k \in 1..Len(inbox[c]) : inbox[c][k].value = set_args[t].new_value

\* C5 as the code has it: once set(x) has returned, every subscriber other
\* than the ignored socket has received exactly one message of that set and
\* no ignored socket has; the message carries the value the variable held
\* when the setter read it back, which is x unless another set wrote in
\* between.
SetDeliversReadValue ==
    \A t \in Threads, c \in var_subs :
        set_pc[t] = "done" =>
            /\ Cardinality({k \in 1..Len(inbox[c]) : inbox[c][k].from = t})
                  = IF c # set_args[t].ignore_socket THEN 1 ELSE 0
            /\ \A k \in 1..Len(inbox[c]) :
                  inbox[c][k].from = t =>
                      /\ inbox[c][k].value \in Vals
                      /\ ~set_raced[t] => inbox[c][k].value = set_args[t].new_value

\* Two sets overlapped: one returned having sent s1 the other's value.
SetDeliversReadValueWitness ==
    /\ set_pc["t1"] = "done"
    /\ "s1" \in var_subs
    /\ set_args["t1"].ignore_socket # "s1"
    /\ set_raced["t1"]
    /\ \E k \in 1..Len(inbox["s1"]) :
          /\ inbox["s1"][k].from = "t1"
          /\ inbox["s1"][k].value # set_args["t1"].new_value

\* The call messages call_remote_blocking and call_remote_all have sent.
SentBy(who) == {m \in rf_sent : m.by = who}

\* C7: a blocking call on a subscribed socket has sent one call message,
\* under an id no other message carries; it has returned only after a return
\* message with its id was handled, with the value of such a message, and
\* returning removes the id from the pending returns.
BlockingCallReturnsOwn ==
    /\ [](\A t \in Threads :
            call_id[t] # 0 =>
              /\ SentBy(t) = {[socket |-> call_socket[t], id |-> call_id[t],
                               ignored |-> FALSE, by |-> t]}
              /\ \A m \in rf_sent : m.id = call_id[t] => m.by = t
              /\ call_pc[t] \in {"read", "returned"} => call_result[t] \in call_seen[t])
    /\ [][\A t \in Threads :
            (call_pc[t] = "read" /\ call_pc'[t] = "returned") =>
                call_id[t] \notin DOMAIN returns']_vars

\* One blocking call has returned v1 while the other, still in flight, has
\* had v2 returned to it.
BlockingCallReturnsOwnWitness ==
    /\ call_pc["t1"] = "returned"
    /\ call_id["t1"] # 0
    /\ call_result["t1"] = "v1"
    /\ call_pc["t2"] = "found"
    /\ call_seen["t2"] = {"v2"}

\* What C8 says of the messages of call_remote_all: pairwise distinct ids,
\* one per subscriber, each id in the ignored set when its message was sent.
CallAllMessages ==
    /\ \A m1, m2 \in SentBy("all") :
          m1 # m2 => (m1.id # m2.id /\ m1.socket # m2.socket)
    /\ {m.id : m \in SentBy("all")} = all_ids
    /\ {m.socket : m \in SentBy("all")} \subseteq rf_subs
    /\ all_pc = "loop" => {m.socket : m \in SentBy("all")} \cup all_left = rf_subs
    /\ \A m \in SentBy("all") : m.ignored

\* C8 as stated: the value of a return for an id of call_remote_all is never
\* stored in the pending returns.
CallAllReturnsNeverStored ==
    /\ CallAllMessages
    /\ \A id \in all_ids : id \notin DOMAIN returns

\* C8 as the code has it: the return handled while the id is in the ignored
\* set takes the id out of the set and leaves the pending returns as they
\* were; only an id no longer ignored is ever stored.
CallAllFirstReturnDiscarded ==
    /\ [](CallAllMessages
          /\ \A id \in all_ids : id \in DOMAIN returns => id \notin ignore_returns)
    /\ [][\A id \in all_ids :
            (id \in ignore_returns /\ id \notin ignore_returns') => returns' = returns]_vars

\* call_remote_all has called two subscribers; the return for one of its
\* ids was discarded and the other id is still ignored.
CallAllFirstReturnDiscardedWitness ==
    /\ all_pc = "done"
    /\ Cardinality(all_ids) = 2
    /\ \E id \in all_ids : id \notin ignore_returns /\ id \notin DOMAIN returns
    /\ \E id \in all_ids : id \in ignore_returns

\* C9: no call id is both a key of the pending returns and ignored.
NeverAwaitedAndIgnored == (DOMAIN returns) \cap ignore_returns = {}

\* A blocking call has its return stored while an id of call_remote_all is
\* still ignored.
NeverAwaitedAndIgnoredWitness ==
    /\ call_pc["t1"] = "found"
    /\ call_id["t1"] \in DOMAIN returns
    /\ ignore_returns # {}

\* C10: when the callable of a call raised, the calling socket has been sent
\* a return message with the call's id that carries an error indicator.
RaisedCallGetsErrorReturn ==
    \A k \in 1..Len(lf_tasks) :
        lf_tasks[k].state = "raised" =>
            \E m \in lf_out :
                /\ m.socket = lf_tasks[k].socket
                /\ m.id = lf_tasks[k].id
                /\ m.error

\* The window (page, size) a get command with the payload data asks for by
\* the stated rule: size = min(requested, page_size), page clamped into
\* [0, pageCount - 1] with pageCount = ceil(len / size).
RequestedSize(data) == Min(DataGet(data, "page_size", page_size), page_size)

RequestedPage(data, len) ==
    LET size == RequestedSize(data)
        pageCount == (len + size - 1) \div size
    IN  Max(0, Min(DataGet(data, "page", 0), pageCount - 1))

\* C11: a get command without id, for every requested page and page_size,
\* returns; it stores (page, size) as the requester's window and replies
\* set_all with that page and the items at positions page*size up to
\* min(page*size + size, len).
GetPagination ==
    [][\A s \in Origins, d \in GetData :
          (lastOp'.op = "handle_get" /\ ~Has(d, "id") /\ HandleGet(s, d)) =>
             /\ lastOp'.raised = "none"
             /\ LET size == RequestedSize(d)
                    page == RequestedPage(d, Len(values))
                IN  /\ subscriber_pages'[s] = <<page, size>>
                    /\ lastOp'.reply.func = "set_all"
                    /\ lastOp'.reply.page = page
                    /\ lastOp'.reply.items =
                          SubSeq(values, page * size + 1,
                                 Min(page * size + size, Len(values)))
      ]_vars

\* C12: a get, set or delete command of a connection that names an id the
\* id map does not hold returns, sends that connection a name error, and
\* leaves the items, the id map, the count and every window as they were.
UnknownIdNameError ==
    [][\A s \in Sockets, id \in Ids :
          LET d == [x \in {"id"} |-> id]
              dv == [x \in {"id", "value"} |-> IF x = "id" THEN id ELSE "v2"]
          IN  (/\ lastOp'.op \in {"handle_get", "handle_set", "handle_delete"}
               /\ id \notin DOMAIN id_map
               /\ (HandleGet(s, d) \/ HandleSet(s, dv) \/ HandleDelete(s, d)))
              => /\ lastOp'.raised = "none"
                 /\ lastOp'.name_error = s
                 /\ UNCHANGED <<values, id_map, count, subscriber_pages>>
      ]_vars


\* C13: a call or return command that lacks its id is reported to the
\* connection it came from as a general error; when it came from the server
\* (no socket) it raises nothing and changes nothing.
MissingFieldReported ==
    [][\A f \in {"call", "return"}, s \in Origins, d \in LfData :
          (~Has(d, "id") /\ LfHandle(f, s, d)) =>
             /\ lf_last'.raised = "none"
             /\ s # None => lf_last'.general_error = s
             /\ UNCHANGED <<lf_tasks, lf_out>>
      ]_vars


\* C14: an insert command of a connection that carries index, value and id
\* adds an item with that id and value: the list holds one more item, the
\* id map leads to the value, and the insert delta goes to the other
\* subscribers whose window covers the item's position.
InsertCommandInserts ==
    [][\A s \in Sockets, d \in InsertData :
          (/\ lastOp'.op = "handle_insert"
           /\ Has(d, "index") /\ Has(d, "value") /\ Has(d, "id")
           /\ HandleInsert(s, d))
          => /\ lastOp'.raised = "none"
             /\ Len(values') = Len(values) + 1
             /\ d["id"] \in DOMAIN id_map'
             /\ values'[PyPos(values', id_map'[d["id"]])] = Item(d["id"], d["value"])
             /\ lastOp'.sent =
                   {c \in subscriber_sockets \ {s} :
                       Covers(subscriber_pages[c], IndexOf(values', d["id"]))}
      ]_vars


\* C15: deleting an id the list holds, by the delete operation or the
\* delete command, returns having removed the item and lowered the count
\* by one, and sends the delete delta to exactly the subscribers, other
\* than the origin, whose window covers the index the item had.
DeleteRemovesAndNotifies ==
    [][\A id \in Ids, o \in Origins :
          (/\ lastOp'.op \in {"delete", "handle_delete"}
           /\ id \in ItemIds(values) /\ id \in DOMAIN id_map
           /\ (Delete(id, o) \/ HandleDelete(o, [x \in {"id"} |-> id])))
          => /\ lastOp'.raised = "none"
             /\ ItemIds(values') = ItemIds(values) \ {id}
             /\ count' = count - 1
             /\ lastOp'.msg.func = "delete"
             /\ lastOp'.sent =
                   {c \in subscriber_sockets \ {o} :
                       Covers(subscriber_pages[c], IndexOf(values, id))}
      ]_vars


\* C18: the keys of the window map are exactly the subscribers.
WindowKeysAreSubscribers == DOMAIN subscriber_pages = subscriber_sockets

\* C19: a get command that carries an id and neither page nor page_size
\* leaves the window of the connection that sent it as it was.
LookupKeepsWindow ==
    [][\A s \in Sockets, d \in Opt("id", Ids) :
          (/\ lastOp'.op = "handle_get"
           /\ s \in subscriber_sockets
           /\ HandleGet(s, d))
          => subscriber_pages'[s] = subscriber_pages[s]
      ]_vars


\* The messages connection c has received of the set thread t ran.
FromThread(t, c) == {k \in 1..Len(inbox[c]) : inbox[c][k].from = t}

ReturnOf(k, value) ==
    [socket |-> lf_tasks[k].socket, id |-> lf_tasks[k].id, value |-> value,
     error |-> FALSE]

\* C17: the handler of a call command with an id from a subscribed
\* connection returns having started the callable and sent nothing; when
\* the callable returns, one return message with the call's id and the
\* callable's result is sent, to the calling connection and no other; a
\* call command of a connection that is not subscribed starts nothing and
\* sends nothing.
CallRunsAsynchronously ==
    /\ [](/\ \A k \in 1..Len(lf_tasks) : lf_tasks[k].socket \in lf_subs
          /\ \A k \in 1..Len(lf_tasks) :
                lf_tasks[k].state = "returned" =>
                    \E v \in Vals : ReturnOf(k, v) \in lf_out
          /\ \A m \in lf_out :
                \E k \in 1..Len(lf_tasks) :
                    lf_tasks[k].state = "returned" /\ m = ReturnOf(k, m.value))
    /\ [][/\ \A s \in Origins, d \in LfData :
                LfHandle("call", s, d) =>
                   /\ lf_out' = lf_out
                   /\ (Has(d, "id") /\ s \in lf_subs) =>
                         lf_tasks' = Append(lf_tasks, [id |-> d["id"], socket |-> s,
                                                      state |-> "running"])
                   /\ s \notin lf_subs => lf_tasks' = lf_tasks
          /\ \A k \in 1..Len(lf_tasks) :
                (lf_tasks[k].state = "running" /\ lf_tasks'[k].state = "returned") =>
                    \E v \in Vals : lf_out' = lf_out \cup {ReturnOf(k, v)}
         ]_vars

\* The callable of the second call has returned and its message was sent to
\* s2 alone, while the callable of the first call, of s1, is still running.
CallRunsAsynchronouslyWitness ==
    /\ lf_subs = {"s1", "s2"}
    /\ Len(lf_tasks) = 2
    /\ lf_tasks[1].state = "running" /\ lf_tasks[1].socket = "s1"
    /\ lf_tasks[2].state = "returned" /\ lf_tasks[2].socket = "s2"
    /\ lf_out = {ReturnOf(2, "v1")}


\* Every thread has run a set that has returned, and none of them had c as
\* its ignored socket.
AllSetsDone(c) ==
    \A t \in Threads : set_pc[t] = "done" /\ set_args[t].ignore_socket # c

\* C20: once the concurrent sets have all returned, the last set
\* message a subscriber they did not exclude received carries the value the
\* variable holds.
FinalValueDelivered ==
    \A c \in var_subs :
        AllSetsDone(c) => inbox[c][Len(inbox[c])].value = var_value

====
